---- MODULE Spec2Model ----
(***************************************************************************)
(* Model of src/app.py: the TWSE IPO auction dashboard.                    *)
(*                                                                         *)
(*   get_twse_auction_data  one HTTP GET, JSON body, positional rows ->    *)
(*                          DataFrame of records with three derived dates  *)
(*   roc_to_date            "YYY/M/D" (Republic-of-China year) -> date     *)
(*   classify_data          three boolean masks against date.today()       *)
(*   convert_df_to_excel    one workbook, three sheets                     *)
(*   main UI script         fetch; if error: st.error else classify,       *)
(*                          export, tabs                                   *)
(*                                                                         *)
(* Python values are records tagged by t: None, str (s: sequence of        *)
(* one-character strings), int (n) and datetime.date (y, m, d).  The       *)
(* source's Chinese dictionary keys and messages are written in ASCII,     *)
(* the original text given in a comment where they are defined.            *)
(***************************************************************************)
EXTENDS Integers, Sequences, FiniteSets, TLC

VARIABLES
    roc_str,    \* SpecDate: the argument handed to roc_to_date
    segs,       \* SpecDate: the segment table entries roc_str was written from
    parsed,     \* SpecDate: what roc_to_date returned ("pending" before the call)
    cdf,        \* SpecClassify: the DataFrame handed to classify_data
    ctoday,     \* SpecClassify: date.today() at the call
    cout,       \* SpecClassify: what classify_data returned ("pending" before)
    pc,         \* Spec: position of the main script
    resp,       \* Spec: the outcome of requests.get (line 23)
    df_all,     \* Spec: first value returned by get_twse_auction_data
    error,      \* Spec: second value returned by get_twse_auction_data
    today,      \* Spec: date.today() read by classify_data
    buckets,    \* Spec: (df_ongoing, df_auctioned, df_listed), None before
    excel_data, \* Spec: the workbook bytes, None before
    shown,      \* Spec: what the page shows: "nothing", "error", "tables"
    unhandled,  \* Spec: the exception that escaped the script, None if none
    steps       \* Spec: the calls the script made so far, in order

vars == <<roc_str, segs, parsed, cdf, ctoday, cout, pc, resp, df_all, error,
          today, buckets, excel_data, shown, unhandled, steps>>

dateVars == <<roc_str, segs, parsed>>
classifyVars == <<cdf, ctoday, cout>>
renderVars == <<pc, resp, df_all, error, today, buckets, excel_data, shown,
                unhandled, steps>>

-----------------------------------------------------------------------------
(* Python values *)

None == [t |-> "none"]
Str(chars) == [t |-> "str", s |-> chars]
PyIntVal(k) == [t |-> "int", n |-> k]
Date(year, month, day) == [t |-> "date", y |-> year, m |-> month, d |-> day]

\* Python truthiness of the values used here: None, "" and 0 are falsy.
Truthy(v) ==
    CASE v.t = "none" -> FALSE
      [] v.t = "str"  -> Len(v.s) > 0
      [] v.t = "int"  -> v.n # 0
      [] OTHER        -> TRUE

Digits == <<"0", "1", "2", "3", "4", "5", "6", "7", "8", "9">>
IsDigit(c) == \E i \in 1..10 : Digits[i] = c
DigitVal(c) == (CHOOSE i \in 1..10 : Digits[i] = c) - 1

\* str.split(sep): the pieces between occurrences of sep; always at least one piece.
RECURSIVE SplitAcc(_, _, _)
SplitAcc(chars, sep, cur) ==
    IF chars = <<>> THEN <<cur>>
    ELSE IF Head(chars) = sep THEN <<cur>> \o SplitAcc(Tail(chars), sep, <<>>)
    ELSE SplitAcc(Tail(chars), sep, Append(cur, Head(chars)))

Split(chars, sep) == SplitAcc(chars, sep, <<>>)

\* sep in text
Contains(chars, sep) == \E i \in 1..Len(chars) : chars[i] = sep

RECURSIVE LStrip(_)
LStrip(chars) ==
    IF chars # <<>> /\ Head(chars) = " " THEN LStrip(Tail(chars)) ELSE chars

RECURSIVE RStrip(_)
RStrip(chars) ==
    IF chars # <<>> /\ chars[Len(chars)] = " "
    THEN RStrip(SubSeq(chars, 1, Len(chars) - 1)) ELSE chars

RECURSIVE DigitsVal(_)
DigitsVal(chars) ==
    IF chars = <<>> THEN 0
    ELSE 10 * DigitsVal(SubSeq(chars, 1, Len(chars) - 1)) + DigitVal(chars[Len(chars)])

\* int(text): surrounding blanks stripped, one optional sign, then one or more
\* decimal digits; anything else raises ValueError (ok = FALSE).
int(chars) ==
    LET body == RStrip(LStrip(chars))
        signed == body # <<>> /\ Head(body) \in {"-", "+"}
        ds == IF signed THEN Tail(body) ELSE body
    IN  IF ds # <<>> /\ \A i \in 1..Len(ds) : IsDigit(ds[i])
        THEN [ok |-> TRUE,
              n |-> IF signed /\ Head(body) = "-" THEN 0 - DigitsVal(ds) ELSE DigitsVal(ds)]
        ELSE [ok |-> FALSE, n |-> 0]

IsLeap(year) == year % 4 = 0 /\ (year % 100 # 0 \/ year % 400 = 0)

DaysInMonth(year, month) ==
    IF month = 2 THEN (IF IsLeap(year) THEN 29 ELSE 28)
    ELSE IF month \in {4, 6, 9, 11} THEN 30 ELSE 31

\* datetime.date(year, month, day) raises ValueError unless this holds
\* (datetime.MINYEAR = 1, datetime.MAXYEAR = 9999).
DateArgsOk(year, month, day) ==
    /\ year >= 1 /\ year <= 9999
    /\ month >= 1 /\ month <= 12
    /\ day >= 1 /\ day <= DaysInMonth(year, month)

\* The offset added to a Republic-of-China year (line 78).
RocOffset == 1911

\* roc_to_date with the segment-count check of line 77 left out.
roc_to_date_nocount(v) ==
    IF ~Truthy(v) THEN None
    ELSE IF v.t # "str" THEN None
    ELSE LET parts == Split(v.s, "/")
             yy == int(parts[1])
             mm == int(parts[2])
             dd == int(parts[3])
         IN  IF Len(parts) < 3 THEN None
             ELSE IF ~yy.ok \/ ~mm.ok \/ ~dd.ok THEN None
             ELSE IF ~DateArgsOk(yy.n + RocOffset, mm.n, dd.n) THEN None
             ELSE Date(yy.n + RocOffset, mm.n, dd.n)

\* roc_to_date (lines 72-81).  Every exception (AttributeError of a non-string
\* .split, ValueError of int() or date()) is caught by the bare except and gives None.
roc_to_date(v) ==
    IF ~Truthy(v) THEN None
    ELSE IF v.t # "str" THEN None
    ELSE LET parts == Split(v.s, "/")
             yy == int(parts[1])
             mm == int(parts[2])
             dd == int(parts[3])
         IN  IF Len(parts) # 3 THEN None
             ELSE IF ~yy.ok \/ ~mm.ok \/ ~dd.ok THEN None
             ELSE IF ~DateArgsOk(yy.n + RocOffset, mm.n, dd.n) THEN None
             ELSE Date(yy.n + RocOffset, mm.n, dd.n)

-----------------------------------------------------------------------------
(* SpecDate: roc_to_date applied to bounded inputs *)

\* The segments the input strings are written from: the text, whether the
\* text is an integer literal, and the integer it denotes.
SegTable ==
    { [txt |-> <<"1", "1", "3">>,      isInt |-> TRUE,  val |-> 113],
      [txt |-> <<"1", "1", "2">>,      isInt |-> TRUE,  val |-> 112],
      [txt |-> <<"2">>,                isInt |-> TRUE,  val |-> 2],
      [txt |-> <<"2", "9">>,           isInt |-> TRUE,  val |-> 29],
      [txt |-> <<"1", "3">>,           isInt |-> TRUE,  val |-> 13],
      [txt |-> <<"0">>,                isInt |-> TRUE,  val |-> 0],
      [txt |-> <<" ", "5">>,           isInt |-> TRUE,  val |-> 5],
      [txt |-> <<"-", "1">>,           isInt |-> TRUE,  val |-> 0 - 1],
      [txt |-> <<"8", "1", "0", "0">>, isInt |-> TRUE,  val |-> 8100],
      [txt |-> <<>>,                   isInt |-> FALSE, val |-> 0],
      [txt |-> <<" ">>,                isInt |-> FALSE, val |-> 0],
      [txt |-> <<"a", "b", "c">>,      isInt |-> FALSE, val |-> 0] }

\* The most '/'-separated segments an input string is written from.
MaxSegs == 4

\* "/".join(segment texts)
RECURSIVE JoinSlash(_)
JoinSlash(ss) ==
    IF Len(ss) = 0 THEN <<>>
    ELSE IF Len(ss) = 1 THEN ss[1].txt
    ELSE ss[1].txt \o <<"/">> \o JoinSlash(Tail(ss))

\* Inputs that are not strings: None, 0, a non-zero number.
NonStrings == {None, PyIntVal(0), PyIntVal(1131112)}

Pending == [t |-> "pending"]

IdleDate == roc_str = None /\ segs = <<>> /\ parsed = Pending

InitDate ==
    /\ \/ \E n \in 1..MaxSegs : \E ss \in [1..n -> SegTable] :
             segs = ss /\ roc_str = Str(JoinSlash(ss))
       \/ segs = <<>> /\ roc_str \in NonStrings
    /\ parsed = Pending

CallRocToDate ==
    /\ parsed = Pending
    /\ parsed' = roc_to_date(roc_str)
    /\ UNCHANGED <<roc_str, segs>>

-----------------------------------------------------------------------------
(* DataFrames and classify_data *)

\* The keys of the row dictionary of lines 54-69, in ASCII:
\* period = the auction period, code, name, industry, underwriter,
\* uw_lots, auction_lots, floor_price, uw_price, min_price, max_price,
\* avg_price, list_date = the listing date, open_date = the opening date.
TextCols == {"period", "code", "name", "industry", "underwriter", "uw_lots",
             "auction_lots", "floor_price", "uw_price", "min_price",
             "max_price", "avg_price", "list_date", "open_date"}

drop_cols == {"date_open_obj", "date_list_obj", "date_auction_end_obj"}

\* pd.DataFrame(processed_data): one row per dictionary, labelled 0, 1, ... (here
\* 1, 2, ...); the columns are the dictionaries' keys, so an empty list gives
\* a frame with no columns at all.
DataFrame(records) ==
    [t |-> "df",
     cols |-> IF records = <<>> THEN {} ELSE TextCols \cup drop_cols,
     rows |-> [i \in 1..Len(records) |-> [idx |-> i, rec |-> records[i]]]]

\* datetime.date ordering: by year, then month, then day.
DateLt(a, b) ==
    \/ a.y < b.y
    \/ a.y = b.y /\ a.m < b.m
    \/ a.y = b.y /\ a.m = b.m /\ a.d < b.d

\* A comparison that orders a missing value before every date.
scalar_compare_nullsfirst(op, x, val) ==
    IF x.t = "none" THEN op \in {"<=", "<"}
    ELSE CASE op = ">=" -> ~DateLt(x, val)
           [] op = ">"  -> DateLt(val, x)
           [] op = "<=" -> ~DateLt(val, x)
           [] op = "<"  -> DateLt(x, val)

\* Series <op> today on an object column (lines 110, 113, 116): pandas compares
\* element by element, and an element that is None compares False under
\* >=, >, <= and <.
scalar_compare(op, x, val) ==
    IF x.t = "none" THEN FALSE
    ELSE CASE op = ">=" -> ~DateLt(x, val)
           [] op = ">"  -> DateLt(val, x)
           [] op = "<=" -> ~DateLt(val, x)
           [] op = "<"  -> DateLt(x, val)

mask_ongoing_strict(r, tdy) ==
    \/ scalar_compare(">", r.date_auction_end_obj, tdy)
    \/ scalar_compare(">", r.date_open_obj, tdy)

\* line 110
mask_ongoing(r, tdy) ==
    \/ scalar_compare(">=", r.date_auction_end_obj, tdy)
    \/ scalar_compare(">", r.date_open_obj, tdy)

\* line 113
mask_listed(r, tdy) == scalar_compare("<=", r.date_list_obj, tdy)

mask_auctioned_strict(r, tdy) ==
    /\ scalar_compare("<", r.date_open_obj, tdy)
    /\ scalar_compare(">", r.date_list_obj, tdy)

\* line 116
mask_auctioned(r, tdy) ==
    /\ scalar_compare("<=", r.date_open_obj, tdy)
    /\ scalar_compare(">", r.date_list_obj, tdy)

\* df[mask].copy(): the rows whose mask element is True, labels and order kept.
RECURSIVE Select(_, _)
Select(rows, mask) ==
    IF rows = <<>> THEN <<>>
    ELSE IF Head(mask)
         THEN <<Head(rows)>> \o Select(Tail(rows), Tail(mask))
         ELSE Select(Tail(rows), Tail(mask))

\* .drop(columns=drop_cols) (line 125)
Drop(rows) ==
    [i \in 1..Len(rows) |->
        [idx |-> rows[i].idx,
         rec |-> [c \in TextCols |-> rows[i].rec[c]]]]

Raised(exc) == [ok |-> FALSE, exc |-> exc]

\* classify_data (lines 105-125).  df[...] on None raises TypeError, on a frame
\* without the column raises KeyError; neither is caught.
classify_data(df, tdy) ==
    IF df.t = "none" THEN Raised("TypeError")
    ELSE IF ~(drop_cols \subseteq df.cols) THEN Raised("KeyError")
    ELSE LET n == Len(df.rows)
             m_ongoing == [i \in 1..n |-> mask_ongoing(df.rows[i].rec, tdy)]
             m_listed == [i \in 1..n |-> mask_listed(df.rows[i].rec, tdy)]
             m_auctioned == [i \in 1..n |-> mask_auctioned(df.rows[i].rec, tdy)]
         IN  [ok |-> TRUE,
              df_ongoing |-> Drop(Select(df.rows, m_ongoing)),
              df_auctioned |-> Drop(Select(df.rows, m_auctioned)),
              df_listed |-> Drop(Select(df.rows, m_listed))]

-----------------------------------------------------------------------------
(* SpecClassify: classify_data applied to bounded frames *)

\* The most rows of a frame handed to classify_data.
MaxRecords == 2

DateA == Date(2024, 11, 10)
DateB == Date(2025, 1, 5)
DateMid == Date(2024, 12, 20)

DerivedDates == {None, DateA, DateB}
Todays == {DateA, DateMid, DateB}

Filler == Str(<<"x">>)

\* A record as get_twse_auction_data appends it, with the given derived dates.
RecordWith(a, o, l) ==
    [c \in TextCols |-> Filler] @@
    [date_auction_end_obj |-> a, date_open_obj |-> o, date_list_obj |-> l]

ClassifyRecords ==
    {RecordWith(a, o, l) : a \in DerivedDates, o \in DerivedDates, l \in DerivedDates}

IdleClassify == cdf = None /\ ctoday = None /\ cout = Pending

InitClassify ==
    /\ \E n \in 0..MaxRecords : \E rs \in [1..n -> ClassifyRecords] :
          cdf = DataFrame(rs)
    /\ ctoday \in Todays
    /\ cout = Pending

CallClassify ==
    /\ cout = Pending
    /\ cout' = classify_data(cdf, ctoday)
    /\ UNCHANGED <<cdf, ctoday>>

-----------------------------------------------------------------------------
(* get_twse_auction_data *)

\* line 50: a row with fewer values is skipped
MinRowLen == 18

\* str(e) of a caught exception, or a message of the code: a non-empty
\* string, kept as one token.
Msg(text) == Str(<<text>>)

\* lines 87-95: the end of the auction period.  '~' in a value that is not a
\* string raises TypeError, caught by the bare except.
auction_end(period) ==
    IF period.t # "str" THEN None
    ELSE IF Contains(period.s, "~")
         THEN roc_to_date(Str(Split(period.s, "~")[2]))
         ELSE None

\* lines 54-97: the dictionary built from one row; item[k] of the source is
\* item[k + 1] here.
MakeRow(item) ==
    LET open_date == IF Len(item) > 18 THEN item[19] ELSE Str(<<>>)
    IN  [period |-> item[1],
         code |-> item[2],
         name |-> item[3],
         industry |-> item[4],
         underwriter |-> item[5],
         uw_lots |-> item[6],
         auction_lots |-> item[7],
         floor_price |-> item[10],
         uw_price |-> item[11],
         min_price |-> item[13],
         max_price |-> item[14],
         avg_price |-> item[15],
         list_date |-> item[18],
         open_date |-> open_date,
         date_open_obj |-> roc_to_date(open_date),
         date_list_obj |-> roc_to_date(item[18]),
         date_auction_end_obj |-> auction_end(item[1])]

\* The loop with the short-row test ending the loop instead of skipping the row.
RECURSIVE ProcessRowsBreak(_)
ProcessRowsBreak(raw_list) ==
    IF raw_list = <<>> THEN <<>>
    ELSE IF Len(Head(raw_list)) < MinRowLen THEN <<>>
    ELSE <<MakeRow(Head(raw_list))>> \o ProcessRowsBreak(Tail(raw_list))

\* lines 48-97: the loop over raw_list
RECURSIVE ProcessRows(_)
ProcessRows(raw_list) ==
    IF raw_list = <<>> THEN <<>>
    ELSE IF Len(Head(raw_list)) < MinRowLen THEN ProcessRows(Tail(raw_list))
    ELSE <<MakeRow(Head(raw_list))>> \o ProcessRows(Tail(raw_list))

\* get_twse_auction_data (lines 11-102), given what requests.get did.  The
\* status code of the response is never read, and neither is a "fields" key
\* of the body.
get_twse_auction_data(r) ==
    IF r.kind = "raise" THEN <<None, Msg("ConnectionError")>>
    ELSE IF ~r.body.json THEN <<None, Msg("JSONDecodeError")>>
    ELSE IF ~r.body.hasData THEN <<None, Msg("cannot get data, source format may have changed")>>
    ELSE <<DataFrame(ProcessRows(r.body.data)), None>>

-----------------------------------------------------------------------------
(* The responses the model draws from *)

\* The most rows in the data array of a payload.
MaxRows == 2

PeriodRange == Str(<<"1", "1", "3", "/", "1", "1", "/", "0", "1", "~",
                     "1", "1", "3", "/", "1", "1", "/", "1", "0">>)
PeriodSingle == Str(<<"1", "1", "3", "/", "1", "1", "/", "1", "0">>)
ListGood == Str(<<"1", "1", "4", "/", "1", "/", "5">>)
ListBad == Str(<<"1", "1", "3", "/", "1", "3", "/", "4", "0">>)
OpenGood == Str(<<"1", "1", "3", "/", "1", "1", "/", "1", "0">>)
StockCode == Str(<<"2", "3", "3", "0">>)

Letters == <<"a", "b", "c", "d", "e", "f", "g", "h", "i", "j", "k", "l", "m",
             "n", "o", "p", "q", "r", "s">>

\* A row of n values: the period, the code, the listing date and the opening
\* date at their positions, a value telling its position everywhere else.
Row(n, period, list_date, open_date) ==
    [i \in 1..n |->
        CASE i = 1  -> period
          [] i = 2  -> StockCode
          [] i = 18 -> list_date
          [] i = 19 -> open_date
          [] OTHER  -> Str(<<Letters[i]>>)]

Rows ==
    {Row(19, p, l, OpenGood) : p \in {PeriodRange, PeriodSingle}, l \in {ListGood, ListBad}}
    \cup {Row(19, PeriodRange, ListGood, Str(<<>>)),
          Row(19, None, ListGood, OpenGood),
          Row(18, PeriodRange, ListGood, None),
          Row(17, PeriodRange, None, None)}

\* The column names of a payload that names its columns, in the order of the
\* row values, and the same with the first two columns exchanged.
FieldNames == <<"Period", "Code", "Name", "Industry", "Underwriter",
                "UnderwritingLots", "AuctionLots", "c7", "c8", "FloorPrice",
                "UnderwritingPrice", "c11", "MinPrice", "MaxPrice", "AvgPrice",
                "c15", "c16", "ListingDate", "OpenDate">>
FieldNamesCodeFirst == <<"Code", "Period">> \o SubSeq(FieldNames, 3, 19)

Bodies ==
    {[json |-> FALSE, hasData |-> FALSE, data |-> <<>>, hasFields |-> FALSE, fields |-> <<>>],
     [json |-> TRUE, hasData |-> FALSE, data |-> <<>>, hasFields |-> FALSE, fields |-> <<>>]}
    \cup {[json |-> TRUE, hasData |-> TRUE, data |-> d, hasFields |-> FALSE, fields |-> <<>>] :
            d \in UNION {[1..n -> Rows] : n \in 0..MaxRows}}
    \cup {[json |-> TRUE, hasData |-> TRUE, data |-> d, hasFields |-> TRUE, fields |-> f] :
            d \in UNION {[1..n -> Rows] : n \in 0..MaxRows},
            f \in {FieldNames, FieldNamesCodeFirst}}

Responses ==
    {[kind |-> "raise", status |-> 0, body |-> [json |-> FALSE, hasData |-> FALSE,
        data |-> <<>>, hasFields |-> FALSE, fields |-> <<>>]]}
    \cup {[kind |-> "response", status |-> s, body |-> b] : s \in {200, 503}, b \in Bodies}

-----------------------------------------------------------------------------
(* The main script (lines 136-181) *)

\* convert_df_to_excel (lines 128-134): one workbook, three sheets, in this
\* order.  The sheet names are the source's, in ASCII.
convert_df_to_excel(df_ongoing, df_auctioned, df_listed) ==
    <<[sheet_name |-> "IPO_auction_ongoing", rows |-> df_ongoing],
      [sheet_name |-> "IPO_auction_opened", rows |-> df_auctioned],
      [sheet_name |-> "IPO_auction_listed", rows |-> df_listed]>>

IdleRender ==
    /\ pc = "start"
    /\ resp = None
    /\ df_all = None
    /\ error = None
    /\ today = None
    /\ buckets = None
    /\ excel_data = <<>>
    /\ shown = "nothing"
    /\ unhandled = "none"
    /\ steps = <<>>

\* line 142: df_all, error = get_twse_auction_data()
Fetch ==
    /\ pc = "start"
    /\ \E r \in Responses :
          LET got == get_twse_auction_data(r)
          IN  /\ resp' = r
              /\ df_all' = got[1]
              /\ error' = got[2]
    /\ pc' = "fetched"
    /\ steps' = Append(steps, "fetch")
    /\ UNCHANGED <<today, buckets, excel_data, shown, unhandled>>

\* lines 144-145: if error: st.error(...)
ShowError ==
    /\ pc = "fetched"
    /\ Truthy(error)
    /\ shown' = "error"
    /\ pc' = "done"
    /\ steps' = Append(steps, "st.error")
    /\ UNCHANGED <<resp, df_all, error, today, buckets, excel_data, unhandled>>

\* The classification step taken whatever the fetch returned.
ClassifyUnguarded ==
    /\ pc = "fetched"
    /\ \E tdy \in Todays :
          LET got == classify_data(df_all, tdy)
          IN  /\ today' = tdy
              /\ IF got.ok
                 THEN buckets' = got /\ pc' = "classified" /\ unhandled' = unhandled
                 ELSE buckets' = buckets /\ pc' = "crashed" /\ unhandled' = got.exc
    /\ steps' = Append(steps, "classify_data")
    /\ UNCHANGED <<resp, df_all, error, excel_data, shown>>

\* lines 146-148: else: classify_data(df_all).  An exception raised there is
\* caught nowhere in the script.
Classify ==
    /\ pc = "fetched"
    /\ ~Truthy(error)
    /\ \E tdy \in Todays :
          LET got == classify_data(df_all, tdy)
          IN  /\ today' = tdy
              /\ IF got.ok
                 THEN buckets' = got /\ pc' = "classified" /\ unhandled' = unhandled
                 ELSE buckets' = buckets /\ pc' = "crashed" /\ unhandled' = got.exc
    /\ steps' = Append(steps, "classify_data")
    /\ UNCHANGED <<resp, df_all, error, excel_data, shown>>

\* lines 151-157: the workbook and the download button
Export ==
    /\ pc = "classified"
    /\ excel_data' = convert_df_to_excel(buckets.df_ongoing, buckets.df_auctioned,
                                         buckets.df_listed)
    /\ pc' = "exported"
    /\ steps' = Append(steps, "convert_df_to_excel")
    /\ UNCHANGED <<resp, df_all, error, today, buckets, shown, unhandled>>

\* lines 160-181: the three tabs
ShowTabs ==
    /\ pc = "exported"
    /\ shown' = "tables"
    /\ pc' = "done"
    /\ steps' = Append(steps, "st.tabs")
    /\ UNCHANGED <<resp, df_all, error, today, buckets, excel_data, unhandled>>

-----------------------------------------------------------------------------
(* Specifications *)

Init == IdleDate /\ IdleClassify /\ IdleRender

Next ==
    \/ Fetch /\ UNCHANGED <<dateVars, classifyVars>>
    \/ ShowError /\ UNCHANGED <<dateVars, classifyVars>>
    \/ Classify /\ UNCHANGED <<dateVars, classifyVars>>
    \/ Export /\ UNCHANGED <<dateVars, classifyVars>>
    \/ ShowTabs /\ UNCHANGED <<dateVars, classifyVars>>

Spec == Init /\ [][Next]_vars

InitD == InitDate /\ IdleClassify /\ IdleRender

NextD == CallRocToDate /\ UNCHANGED <<classifyVars, renderVars>>

SpecDate == InitD /\ [][NextD]_vars

InitC == IdleDate /\ InitClassify /\ IdleRender

NextC == CallClassify /\ UNCHANGED <<dateVars, renderVars>>

SpecClassify == InitC /\ [][NextC]_vars

-----------------------------------------------------------------------------
(* Claims about classify_data, under SpecClassify *)

Present(v) == v.t = "date"

\* A date as one number that grows with the calendar.
Ord(v) == v.y * 10000 + v.m * 100 + v.d

Returned == cout # Pending /\ cout.ok

Labels(bucket) == {bucket[k].idx : k \in 1..Len(bucket)}

\* The bucket holds each of its rows once, in input order, each with the
\* text columns of the input row of the same label.
SubFrameOf(bucket, df) ==
    /\ \A k \in 1..Len(bucket) :
          /\ bucket[k].idx \in 1..Len(df.rows)
          /\ bucket[k].rec = [c \in TextCols |-> df.rows[bucket[k].idx].rec[c]]
    /\ \A j, k \in 1..Len(bucket) : j < k => bucket[j].idx < bucket[k].idx

OngoingByDates(r, tdy) ==
    \/ Present(r.date_auction_end_obj) /\ Ord(r.date_auction_end_obj) >= Ord(tdy)
    \/ Present(r.date_open_obj) /\ Ord(r.date_open_obj) > Ord(tdy)

\* C1: whenever classify_data returns, the ongoing bucket holds exactly the
\* input records with (auction_end_date present and >= today) or (open_date
\* present and > today); a record with both absent is never in it.
C1_OngoingBucket ==
    Returned =>
        /\ SubFrameOf(cout.df_ongoing, cdf)
        /\ Labels(cout.df_ongoing) =
             {i \in 1..Len(cdf.rows) : OngoingByDates(cdf.rows[i].rec, ctoday)}
        /\ \A i \in 1..Len(cdf.rows) :
             (/\ cdf.rows[i].rec.date_auction_end_obj = None
              /\ cdf.rows[i].rec.date_open_obj = None)
             => i \notin Labels(cout.df_ongoing)

\* A frame where the auction ends today (in the bucket) next to one that only
\* opens today (not in the bucket).
C1_Witness ==
    /\ Returned
    /\ \E i, j \in 1..Len(cdf.rows) :
          /\ cdf.rows[i].rec.date_auction_end_obj = ctoday
          /\ cdf.rows[i].rec.date_open_obj = None
          /\ i \in Labels(cout.df_ongoing)
          /\ cdf.rows[j].rec.date_auction_end_obj = None
          /\ cdf.rows[j].rec.date_open_obj = ctoday
          /\ j \notin Labels(cout.df_ongoing)

AwaitingByDates(r, tdy) ==
    /\ Present(r.date_open_obj) /\ Ord(r.date_open_obj) <= Ord(tdy)
    /\ Present(r.date_list_obj) /\ Ord(r.date_list_obj) > Ord(tdy)

\* C2: whenever classify_data returns, the awaiting-listing bucket holds
\* exactly the input records with open_date present and <= today and
\* listing_date present and > today; a record with either absent is never in it.
C2_AwaitingBucket ==
    Returned =>
        /\ SubFrameOf(cout.df_auctioned, cdf)
        /\ Labels(cout.df_auctioned) =
             {i \in 1..Len(cdf.rows) : AwaitingByDates(cdf.rows[i].rec, ctoday)}
        /\ \A i \in 1..Len(cdf.rows) :
             (\/ cdf.rows[i].rec.date_open_obj = None
              \/ cdf.rows[i].rec.date_list_obj = None)
             => i \notin Labels(cout.df_auctioned)

\* A record opened today and listed later is in the bucket, next to one
\* without a listing date, which is not.
C2_Witness ==
    /\ Returned
    /\ \E i, j \in 1..Len(cdf.rows) :
          /\ cdf.rows[i].rec.date_open_obj = ctoday
          /\ Present(cdf.rows[i].rec.date_list_obj)
          /\ i \in Labels(cout.df_auctioned)
          /\ cdf.rows[j].rec.date_open_obj = ctoday
          /\ cdf.rows[j].rec.date_list_obj = None
          /\ j \notin Labels(cout.df_auctioned)

AllAbsent(r) ==
    /\ r.date_auction_end_obj = None
    /\ r.date_open_obj = None
    /\ r.date_list_obj = None

\* C3: on a frame holding a record whose three derived dates are all absent,
\* classify_data returns (does not raise) and that record is in none of the
\* three buckets, whatever today is.
C3_AllAbsentInNoBucket ==
    cout # Pending =>
        \A i \in 1..Len(cdf.rows) :
            AllAbsent(cdf.rows[i].rec) =>
                /\ cout.ok
                /\ i \notin Labels(cout.df_ongoing)
                /\ i \notin Labels(cout.df_auctioned)
                /\ i \notin Labels(cout.df_listed)

\* An all-absent record next to a record that is listed.
C3_Witness ==
    /\ Returned
    /\ \E i, j \in 1..Len(cdf.rows) :
          /\ AllAbsent(cdf.rows[i].rec)
          /\ j \in Labels(cout.df_listed)

-----------------------------------------------------------------------------
(* Claim about roc_to_date, under SpecDate *)

MonthLengths == <<31, 28, 31, 30, 31, 30, 31, 31, 30, 31, 30, 31>>

\* (year, month, day) names a day of the proleptic Gregorian calendar that
\* datetime.date can hold.
CalendarDay(year, month, day) ==
    /\ year \in 1..9999
    /\ month \in 1..12
    /\ day >= 1
    /\ \/ day <= MonthLengths[month]
       \/ /\ month = 2 /\ day = 29
          /\ \/ year % 400 = 0
             \/ year % 4 = 0 /\ year % 100 # 0

WellFormed ==
    /\ roc_str.t = "str"
    /\ Len(segs) = 3
    /\ \A i \in 1..3 : segs[i].isInt
    /\ CalendarDay(segs[1].val + 1911, segs[2].val, segs[3].val)

\* C8: roc_to_date returns a date exactly when its input is a string of
\* exactly three '/'-separated segments that are integers YYY, M, D with
\* (YYY + 1911, M, D) a calendar date, and then returns that date; for every
\* other input it returns None.  (An exception never leaves it: the model's
\* roc_to_date gives None where the source's bare except does.)
C8_RocToDate ==
    parsed # Pending =>
        IF WellFormed
        THEN parsed = Date(segs[1].val + 1911, segs[2].val, segs[3].val)
        ELSE parsed = None

\* "113/2/29" parsed to 29 February 2024.
C8_Witness ==
    /\ roc_str = Str(<<"1", "1", "3", "/", "2", "/", "2", "9">>)
    /\ parsed = Date(2024, 2, 29)

-----------------------------------------------------------------------------
(* Claims about the fetch and the render, under Spec *)

Fetched == pc # "start"

GotPayload == Fetched /\ resp.kind = "response" /\ resp.body.json /\ resp.body.hasData

\* C4: the fetch returns either (a non-empty record sequence, no error) or
\* (an error, no records).
C4_RecordsXorError ==
    Fetched =>
        \/ error = None /\ df_all.t = "df" /\ Len(df_all.rows) > 0
        \/ error # None /\ df_all = None

\* C5: a response with a non-success status gives an error and no records.
C5_NonSuccessStatusIsError ==
    (Fetched /\ resp.kind = "response" /\ resp.status # 200) =>
        error # None /\ df_all = None

\* C6: no exception escapes the steps after the fetch, and a finished render
\* shows the tables or a message.
C6_RenderNeverCrashes ==
    /\ unhandled = "none"
    /\ pc # "crashed"
    /\ pc = "done" => shown \in {"tables", "error"}

\* The offsets of lines 33-46: where each text column sits in a row.
OffsetOf ==
    [period |-> 0, code |-> 1, name |-> 2, industry |-> 3, underwriter |-> 4,
     uw_lots |-> 5, auction_lots |-> 6, floor_price |-> 9, uw_price |-> 10,
     min_price |-> 12, max_price |-> 13, avg_price |-> 14, list_date |-> 17,
     open_date |-> 18]

LongEnough(item) == Len(item) >= 18

LongRows(data) == SelectSeq(data, LongEnough)

\* C7: from a payload without column names the fetch returns no error and one
\* record per row of at least 18 values, in input order, each value at its
\* column (the opening date empty when the row has 18 values); shorter rows
\* give no record.
C7_ShortRowsSkipped ==
    (GotPayload /\ ~resp.body.hasFields) =>
        /\ error = None
        /\ df_all.t = "df"
        /\ Len(df_all.rows) = Len(LongRows(resp.body.data))
        /\ \A k \in 1..Len(df_all.rows) :
              LET item == LongRows(resp.body.data)[k]
                  rec == df_all.rows[k].rec
              IN  /\ df_all.rows[k].idx = k
                  /\ \A c \in TextCols :
                        rec[c] = IF OffsetOf[c] < Len(item)
                                 THEN item[OffsetOf[c] + 1]
                                 ELSE Str(<<>>)

\* A short row before a long one: the long one is kept.
C7_Witness ==
    /\ GotPayload /\ ~resp.body.hasFields
    /\ Len(resp.body.data) = 2
    /\ Len(resp.body.data[1]) < 18
    /\ Len(resp.body.data[2]) >= 18
    /\ Len(df_all.rows) = 1
    /\ df_all.rows[1].rec.period = resp.body.data[2][1]

\* The names of the code column.
CodeNames == {"StockCode", "Code", "SecurityCode"}

\* C9: when the payload names its columns, the code field of every record is
\* the row value at the position of the column named as the code.
C9_CodeResolvedByName ==
    (GotPayload /\ resp.body.hasFields) =>
        /\ error = None
        /\ df_all.t = "df"
        /\ \A k \in 1..Len(df_all.rows) :
              \A j \in 1..Len(resp.body.fields) :
                 resp.body.fields[j] \in CodeNames =>
                    df_all.rows[k].rec.code = LongRows(resp.body.data)[k][j]

Prefixes(s) == {SubSeq(s, 1, n) : n \in 0..Len(s)}

Occurs(step) == \E k \in 1..Len(steps) : steps[k] = step

\* C10: the script calls fetch once, then classify_data, then
\* convert_df_to_excel, then shows the tabs; when the fetch returned an error
\* it calls neither classify_data nor convert_df_to_excel, shows no table, and
\* a finished render shows the error.
C10_RenderOrder ==
    /\ steps \in Prefixes(<<"fetch", "classify_data", "convert_df_to_excel", "st.tabs">>)
                 \cup {<<"fetch", "st.error">>}
    /\ Fetched => steps[1] = "fetch"
    /\ (Fetched /\ error # None) =>
          /\ ~Occurs("classify_data")
          /\ ~Occurs("convert_df_to_excel")
          /\ ~Occurs("st.tabs")
          /\ buckets = None /\ excel_data = <<>>
          /\ shown # "tables"
          /\ pc = "done" => shown = "error"
    /\ shown = "tables" => steps = <<"fetch", "classify_data", "convert_df_to_excel", "st.tabs">>

\* A render that ended on the error message after a failed fetch.
C10_Witness ==
    /\ pc = "done"
    /\ error # None
    /\ shown = "error"
    /\ steps = <<"fetch", "st.error">>

====
